---- MODULE Spec2Model ----
(***************************************************************************)
(* A model of q.js, a functional collection library: lay, single, mold,    *)
(* amend, filter, min, max, field, group, sort, pluck, map, reduce, mixin. *)
(*                                                                         *)
(* Every operation is a pure function of its arguments, so each one is an  *)
(* operator computed the way its code computes it, and each family of      *)
(* operations has a specification whose initial states draw the arguments  *)
(* and whose actions perform one call.  Calls that allocate or write       *)
(* arrays and objects act on an explicit heap.                             *)
(***************************************************************************)
EXTENDS Integers, Sequences, FiniteSets, TLC

VARIABLES
    op,     \* the operation called ("none" before the call)
    args,   \* the arguments of the call
    ret,    \* what the call returned (or Throw)
    trace,  \* the indices on which a callback was evaluated, in order
    heap    \* the arrays and objects alive: address -> contents

vars == <<op, args, ret, trace, heap>>

(***************************************************************************)
(* Bounds of the model.                                                    *)
(***************************************************************************)
MaxNum == 3      \* lay: end and start range over -MaxNum..MaxNum
MaxStep == 2     \* lay: step ranges over -MaxStep..MaxStep
MaxLen == 3      \* min, max: lists of at most MaxLen elements
MaxKey == 2      \* min, max: keys range over 0..MaxKey
MaxSeq == 2      \* filter, single: lists of at most MaxSeq elements
MaxLeft == 2     \* amend: left lists of at most MaxLeft elements
MaxRight == 2    \* amend: right lists of at most MaxRight elements
MaxGroup == 3    \* group: lists of at most MaxGroup elements
MaxHeapLen == 2  \* calls on the heap: input lists of at most MaxHeapLen elements

(***************************************************************************)
(* JavaScript values.  A value is a record [t, n, o, a]: t is its type     *)
(* tag, n the number of a "num" or the digits of a numeric "str", o the    *)
(* own enumerable fields of an "obj" (a field is Absent or a primitive),   *)
(* a the items of an "arr".                                                *)
(***************************************************************************)
Keys == {"", "a", "b"}

Absent == [t |-> "absent", n |-> 0]
NoFields == [k \in Keys |-> Absent]

Prim(tag, num) == [t |-> tag, n |-> num, o |-> NoFields, a |-> <<>>]
Undef == Prim("undef", 0)
Null == Prim("null", 0)
Num(i) == Prim("num", i)
Str(i) == Prim("str", i)
Obj(fields) == [t |-> "obj", n |-> 0, o |-> fields, a |-> <<>>]
Arr(items) == [t |-> "arr", n |-> 0, o |-> NoFields, a |-> items]
Throw == Prim("throw", 0)

\* ToBoolean: undefined, null, 0, false and NaN are falsy; a numeric string,
\* an object and an array are truthy.
Truthy(v) ==
    CASE v.t \in {"undef", "null", "nan"} -> FALSE
      [] v.t \in {"num", "bool"} -> v.n /= 0
      [] OTHER -> TRUE

\* list[i] with i counted from 0: undefined past the end.
At(list, i) == IF i + 1 \in 1..Len(list) THEN list[i + 1] ELSE Undef

\* A field of an object as a value.
Lift(fv) == IF fv.t = "absent" THEN Undef ELSE Prim(fv.t, fv.n)
Fv(v) == [t |-> v.t, n |-> v.n]

\* x < y and x > y on numbers, undefined, null, numeric strings of one
\* digit and objects.  undefined and an object convert to NaN (two objects
\* to the same string), which is neither less nor greater than anything.
ToNumber(v) == IF v.t = "null" THEN 0 ELSE v.n
Ordered(x, y) == x.t \in {"num", "null", "str"} /\ y.t \in {"num", "null", "str"}
Lt(x, y) == Ordered(x, y) /\ ToNumber(x) < ToNumber(y)
Gt(x, y) == Ordered(x, y) /\ ToNumber(x) > ToNumber(y)

\* x == y on primitives: undefined and null equal each other and nothing
\* else; a number and a numeric string compare as numbers; NaN equals nothing.
LooseEq(x, y) ==
    CASE x.t \in {"undef", "null"} -> y.t \in {"undef", "null"}
      [] x.t \in {"num", "str", "bool"} -> y.t \in {"num", "str", "bool"} /\ x.n = y.n
      [] OTHER -> FALSE

Bool(b) == Prim("bool", IF b THEN 1 ELSE 0)

\* -1 * x: a number or numeric string negated, NaN for undefined.
Negate(x) ==
    CASE x.t \in {"num", "str", "bool"} -> Num(0 - x.n)
      [] x.t = "null" -> Num(0)
      [] OTHER -> Prim("nan", 0)

\* String(x) as a property name: a number and the numeric string of the same
\* digits give the same name.
ToPropertyKey(x) ==
    CASE x.t \in {"num", "str"} -> [t |-> "str", n |-> x.n]
      [] OTHER -> [t |-> x.t, n |-> 0]

(***************************************************************************)
(* Callbacks.  A function-or-spec argument is a record: callable tells a   *)
(* function from a field name or Spec, name is the function's body or the  *)
(* field name, spec the fields of a Spec, env what a closure captured.     *)
(***************************************************************************)
NoEnv ==
    [l |-> Undef, lKey |-> "", rKey |-> "", right |-> <<>>,
     fcallable |-> FALSE, fname |-> ""]
Closure(body, env) == [callable |-> TRUE, name |-> body, spec |-> NoFields, env |-> env]
Fn(body) == Closure(body, NoEnv)
FieldName(k) == [callable |-> FALSE, name |-> k, spec |-> NoFields, env |-> NoEnv]
SpecArg(fields) == [callable |-> FALSE, name |-> "", spec |-> fields, env |-> NoEnv]

(***************************************************************************)
(* Q.field: obj[property].  Reading a property of undefined or null        *)
(* throws.  A decorated pair {key, val} of sort keeps its two values in a. *)
(***************************************************************************)
field(property, obj) ==
    CASE obj.t \in {"undef", "null"} -> Throw
      [] obj.t = "obj" /\ property \in Keys -> Lift(obj.o[property])
      [] obj.t = "pair" /\ property = "key" -> obj.a[1]
      [] obj.t = "pair" /\ property = "val" -> obj.a[2]
      [] obj.t = "arr" /\ property = "0" -> At(obj.a, 0)
      [] OTHER -> Undef

(***************************************************************************)
(* Q.mold: the predicate of a Spec, applied to obj.                        *)
(***************************************************************************)
moldStrict(spec, obj) ==
    \A key \in Keys :
        spec[key] /= Absent => Lift(spec[key]) = field(key, obj)

mold(spec, obj) ==
    \A key \in Keys :
        spec[key] /= Absent => LooseEq(Lift(spec[key]), field(key, obj))

(***************************************************************************)
(* Q.mixin: res = {}, then every entry of left, then every entry of right. *)
(***************************************************************************)
CopyInto(res, src) == [key \in Keys |-> IF src[key] /= Absent THEN src[key] ELSE res[key]]

mixinLeftWins(left, right) == Obj(CopyInto(CopyInto(NoFields, right.o), left.o))

mixin(left, right) == Obj(CopyInto(CopyInto(NoFields, left.o), right.o))

(***************************************************************************)
(* Q.single.  The result carries the indices the predicate was called on.  *)
(***************************************************************************)
RECURSIVE Call(_, _)

\* typeof f == 'function' ? f : Q.mold(f), applied to x and tested by if.
pred(f, x) == IF f.callable THEN Truthy(Call(f, x)) ELSE mold(f.spec, x)

RECURSIVE singleLast(_, _, _, _)
singleLast(f, list, i, evals) ==
    IF i < Len(list)
    THEN LET rest == singleLast(f, list, i + 1, Append(evals, i))
         IN  IF pred(f, At(list, i)) /\ rest.ret = Undef
             THEN [ret |-> At(list, i), evals |-> rest.evals]
             ELSE rest
    ELSE [ret |-> Undef, evals |-> evals]

RECURSIVE singleLoop(_, _, _, _)
singleLoop(f, list, i, evals) ==
    IF i < Len(list)
    THEN IF pred(f, At(list, i))
         THEN [ret |-> At(list, i), evals |-> Append(evals, i)]
         ELSE singleLoop(f, list, i + 1, Append(evals, i))
    ELSE [ret |-> Undef, evals |-> evals]

single(f, list) == singleLoop(f, list, 0, <<>>)

(***************************************************************************)
(* Q.filter                                                                *)
(***************************************************************************)
RECURSIVE filterLoop(_, _, _, _)
filterLoop(f, list, i, res) ==
    IF i < Len(list)
    THEN filterLoop(f, list, i + 1,
                    IF pred(f, At(list, i)) THEN Append(res, At(list, i)) ELSE res)
    ELSE res

filter(f, list) == filterLoop(f, list, 0, <<>>)

(***************************************************************************)
(* Q.map, Q.pluck, Q.reduce                                                *)
(***************************************************************************)
map(f, list) == [i \in 1..Len(list) |-> Call(f, At(list, i - 1))]

pluck(key, list) == map(Closure("Q.field(property)", [NoEnv EXCEPT !.fname = key]), list)

RECURSIVE Call2(_, _, _)

RECURSIVE reduceLoop(_, _, _, _)
reduceLoop(fn, res, arr, i) ==
    IF i < Len(arr) THEN reduceLoop(fn, Call2(fn, res, At(arr, i)), arr, i + 1) ELSE res

reduce(fn, res, arr) == reduceLoop(fn, res, arr, 0)

(***************************************************************************)
(* Q.amend                                                                 *)
(***************************************************************************)
\* A key-name argument: omitted, or the name given.
Omitted == [given |-> FALSE, name |-> ""]
Key(k) == [given |-> TRUE, name |-> k]

\* rKey || lKey: the empty name is falsy, as an omitted argument is.
OrElse(rKey, lKey) == IF rKey.given /\ rKey.name /= "" THEN rKey ELSE lKey

amendEach(l, env) ==
    LET found == single(Closure("function (r) { return l[lKey] == r[rKey]; }",
                                [env EXCEPT !.l = l]), env.right).ret
    IN  mixin(l, IF Truthy(found) THEN found ELSE Obj(NoFields))

amend(left, right, lKey, rKey) ==
    LET rKey1 == OrElse(rKey, lKey)
    IN  map(Closure("function (l) { ... Q.mixin(l, found ? found : {}) }",
                    [NoEnv EXCEPT !.right = right, !.lKey = lKey.name,
                                  !.rKey = rKey1.name]), left)

(***************************************************************************)
(* The key function of Q.min, Q.max, Q.group and Q.sort.                   *)
(***************************************************************************)
\* f[0] == '-' and f.substring(1), on the field names the model passes.
IsDescending(name) == name \in {"-a", "-b"}
Substring1(name) == CASE name = "-a" -> "a" [] name = "-b" -> "b"

\* typeof f == 'function' ? f : Q.field(f), applied to x.
keyFn(f, x) == IF f.callable THEN Call(f, x) ELSE field(f.name, x)

sortKeyFnPlain(f, x) ==
    IF f.callable THEN Call(f, x) ELSE field(f.name, x)

\* The key function Q.sort resolves, applied to x.
sortKeyFn(f, x) ==
    IF f.callable THEN Call(f, x)
    ELSE IF IsDescending(f.name) THEN Negate(field(Substring1(f.name), x))
    ELSE field(f.name, x)

(***************************************************************************)
(* Q.group                                                                 *)
(***************************************************************************)
\* arr.concat(elt): an array argument is spread, anything else appended.
concat(arr, elt) == IF elt.t = "arr" THEN arr \o elt.a ELSE Append(arr, elt)

\* function (acc, elt) of Q.group; acc maps property names to arrays.
groupStep(env, acc, elt) ==
    LET key == ToPropertyKey(keyFn([callable |-> env.fcallable, name |-> env.fname,
                                    spec |-> NoFields, env |-> NoEnv], elt))
    IN  IF key \in DOMAIN acc
        THEN [acc EXCEPT ![key] = concat(acc[key], elt)]
        ELSE [k \in DOMAIN acc \cup {key} |-> IF k = key THEN <<elt>> ELSE acc[k]]

group(f, list) ==
    reduce(Closure("function (acc, elt) { ... acc[key].concat(elt) : [elt] }",
                   [NoEnv EXCEPT !.fcallable = f.callable, !.fname = f.name]),
           <<>>, list)

(***************************************************************************)
(* Q.sort                                                                  *)
(***************************************************************************)
Pair(key, val) == [t |-> "pair", n |-> 0, o |-> NoFields, a |-> <<key, val>>]

keyValue(f, list) ==
    map(Closure("function(item) {return {key: fn(item), val: item};}",
                [NoEnv EXCEPT !.fcallable = f.callable, !.fname = f.name]), list)

compareKeys(a, b) ==
    IF Lt(field("key", a), field("key", b)) THEN -1
    ELSE IF Gt(field("key", a), field("key", b)) THEN 1
    ELSE 0

\* Array.prototype.sort(comparefn): a stable sort (ECMAScript 2019), here by
\* insertion: x goes behind every element that does not compare above it.
RECURSIVE insertSorted(_, _)
insertSorted(sorted, x) ==
    IF sorted = <<>> THEN <<x>>
    ELSE IF compareKeys(sorted[Len(sorted)], x) > 0
         THEN Append(insertSorted(SubSeq(sorted, 1, Len(sorted) - 1), x), sorted[Len(sorted)])
         ELSE Append(sorted, x)

RECURSIVE hostSort(_)
hostSort(arr) ==
    IF arr = <<>> THEN <<>>
    ELSE insertSorted(hostSort(SubSeq(arr, 1, Len(arr) - 1)), arr[Len(arr)])

sort(f, list) == pluck("val", hostSort(keyValue(f, list)))

(***************************************************************************)
(* The bodies of the functions passed as callbacks.                        *)
(***************************************************************************)
Call(f, x) ==
    CASE f.name = "x => x.a" -> field("a", x)
      [] f.name = "x => x" -> x
      [] f.name = "x => x.a == 1" ->
            IF field("a", x) = Throw THEN Throw ELSE Bool(LooseEq(field("a", x), Num(1)))
      [] f.name = "x => x.b" -> field("b", x)
      [] f.name = "Q.mold(spec)" -> Bool(mold(f.spec, x))
      [] f.name = "Q.field(property)" -> field(f.env.fname, x)
      [] f.name = "function (r) { return l[lKey] == r[rKey]; }" ->
            Bool(LooseEq(field(f.env.lKey, f.env.l), field(f.env.rKey, x)))
      [] f.name = "function (l) { ... Q.mixin(l, found ? found : {}) }" ->
            amendEach(x, f.env)
      [] f.name = "function(item) {return {key: fn(item), val: item};}" ->
            Pair(sortKeyFn([callable |-> f.env.fcallable, name |-> f.env.fname,
                            spec |-> NoFields, env |-> NoEnv], x), x)

Call2(f, acc, x) ==
    CASE f.name = "function (acc, elt) { ... acc[key].concat(elt) : [elt] }" ->
            groupStep(f.env, acc, x)
      [] f.name = "(acc, x) => acc + x.a" -> Num(acc.n + field("a", x).n)

(***************************************************************************)
(* The calls on a heap h of arrays and objects: an argument and a returned *)
(* array or object is an address of h, a call gives [heap, ret].           *)
(***************************************************************************)
\* Q.mixin: res = {} is a new object, and the only one written.
mixinOnHeap(h, left, right) ==
    [heap |-> Append(h, mixin(h[left], h[right])), ret |-> Len(h) + 1]

\* Q.map: res = new Array(len) is a new array, and the only one written.
mapOnHeap(h, f, list) ==
    [heap |-> Append(h, Arr(map(f, h[list].a))), ret |-> Len(h) + 1]

\* Q.filter: res = [] is a new array, and the only one written.
filterOnHeap(h, f, list) ==
    [heap |-> Append(h, Arr(filter(f, h[list].a))), ret |-> Len(h) + 1]

pluckOnHeap(h, key, list) ==
    mapOnHeap(h, Closure("Q.field(property)", [NoEnv EXCEPT !.fname = key]), list)

keyValueOnHeap(h, f, list) ==
    mapOnHeap(h, Closure("function(item) {return {key: fn(item), val: item};}",
                         [NoEnv EXCEPT !.fcallable = f.callable, !.fname = f.name]), list)

sortOnHeapInPlace(h, f, list) ==
    [heap |-> [h EXCEPT ![list].a = sort(f, @)], ret |-> list]

\* Q.sort: Array.prototype.sort reorders the array it is called on, here the
\* decorated array _keyValue returned.
sortOnHeap(h, f, list) ==
    LET decorated == keyValueOnHeap(h, f, list)
        sorted == [decorated.heap EXCEPT ![decorated.ret].a = hostSort(@)]
    IN  pluckOnHeap(sorted, "val", decorated.ret)

amendOnHeap(h, left, right, lKey, rKey) ==
    [heap |-> Append(h, Arr(amend(h[left].a, h[right].a, lKey, rKey))),
     ret |-> Len(h) + 1]

\* Q.group: acc = {} is a new object, and every bucket, [elt] or the result
\* of concat, a new array.  ret maps each key to its bucket's address.
RECURSIVE allocBuckets(_, _, _, _)
allocBuckets(h, groups, keys, acc) ==
    IF keys = {} THEN [heap |-> h, ret |-> acc]
    ELSE LET key == CHOOSE k \in keys : TRUE
         IN  allocBuckets(Append(h, Arr(groups[key])), groups, keys \ {key},
                          [k \in DOMAIN acc \cup {key} |->
                              IF k = key THEN Len(h) + 1 ELSE acc[k]])

groupOnHeap(h, f, list) ==
    allocBuckets(h, group(f, h[list].a), DOMAIN group(f, h[list].a), <<>>)

(***************************************************************************)
(* Q.min, Q.max                                                            *)
(***************************************************************************)
RECURSIVE minLoopLast(_, _, _, _, _)
minLoopLast(f, list, i, item, res) ==
    IF i < Len(list)
    THEN LET current == keyFn(f, At(list, i))
         IN  IF current = Throw THEN Throw
             ELSE IF ~Gt(current, res)
                  THEN minLoopLast(f, list, i + 1, At(list, i), current)
                  ELSE minLoopLast(f, list, i + 1, item, res)
    ELSE item

RECURSIVE minLoop(_, _, _, _, _)
minLoop(f, list, i, item, res) ==
    IF i < Len(list)
    THEN LET current == keyFn(f, At(list, i))
         IN  IF current = Throw THEN Throw
             ELSE IF Lt(current, res)
                  THEN minLoop(f, list, i + 1, At(list, i), current)
                  ELSE minLoop(f, list, i + 1, item, res)
    ELSE item

min(f, list) ==
    LET item == At(list, 0)
        res == keyFn(f, At(list, 0))
    IN  IF res = Throw THEN Throw ELSE minLoop(f, list, 0, item, res)

RECURSIVE maxLoop(_, _, _, _, _)
maxLoop(f, list, i, item, res) ==
    IF i < Len(list)
    THEN LET current == keyFn(f, At(list, i))
         IN  IF current = Throw THEN Throw
             ELSE IF Gt(current, res)
                  THEN maxLoop(f, list, i + 1, At(list, i), current)
                  ELSE maxLoop(f, list, i + 1, item, res)
    ELSE item

max(f, list) ==
    LET item == At(list, 0)
        res == keyFn(f, At(list, 0))
    IN  IF res = Throw THEN Throw ELSE maxLoop(f, list, 0, item, res)

(***************************************************************************)
(* Q.lay                                                                   *)
(***************************************************************************)
RECURSIVE layUpInclusive(_, _, _, _)
layUpInclusive(i, end, step, res) ==
    IF i =< end THEN layUpInclusive(i + step, end, step, Append(res, i)) ELSE res

RECURSIVE layUp(_, _, _, _)
layUp(i, end, step, res) ==
    IF i < end THEN layUp(i + step, end, step, Append(res, i)) ELSE res

RECURSIVE layDown(_, _, _, _)
layDown(i, end, step, res) ==
    IF i > end THEN layDown(i + step, end, step, Append(res, i)) ELSE res

lay(end, start, step) ==
    LET start1 == IF Truthy(start) THEN start.n ELSE 0
        step1 == IF step.t \in {"undef", "null"} THEN 1 ELSE step.n
    IN  IF step1 > 0 THEN layUp(start1, end.n, step1, <<>>)
        ELSE IF step1 < 0 THEN layDown(start1, end.n, step1, <<>>)
        ELSE <<>>

NoHeap == <<>>

LayArgs ==
    [end : {Num(i) : i \in -MaxNum..MaxNum},
     start : {Num(i) : i \in -MaxNum..MaxNum} \cup {Undef},
     step : {Num(i) : i \in -MaxStep..MaxStep} \cup {Undef}]

InitLay ==
    /\ op = "none"
    /\ args \in LayArgs
    /\ ret = Undef
    /\ trace = <<>>
    /\ heap = NoHeap

Lay ==
    /\ op = "none"
    /\ op' = "lay"
    /\ ret' = lay(args.end, args.start, args.step)
    /\ UNCHANGED <<args, trace, heap>>

NextLay == Lay

SpecLay == InitLay /\ [][NextLay]_vars

SeqsUpTo(S, n) == UNION {[1..k -> S] : k \in 0..n}

KeyedObjs ==
    {Obj([NoFields EXCEPT !["a"] = Fv(Num(i)), !["b"] = Fv(Num(j))]) :
        i \in 0..MaxKey, j \in 0..1}

MinMaxArgs ==
    [f : {Fn("x => x.a"), FieldName("a")}, list : SeqsUpTo(KeyedObjs, MaxLen)]
    \cup [f : {Fn("x => x")}, list : SeqsUpTo({Num(i) : i \in 0..MaxKey}, MaxLen)]

InitMinMax ==
    /\ op = "none"
    /\ args \in MinMaxArgs
    /\ ret = Undef
    /\ trace = <<>>
    /\ heap = NoHeap

Min ==
    /\ op = "none"
    /\ op' = "min"
    /\ ret' = min(args.f, args.list)
    /\ UNCHANGED <<args, trace, heap>>

Max ==
    /\ op = "none"
    /\ op' = "max"
    /\ ret' = max(args.f, args.list)
    /\ UNCHANGED <<args, trace, heap>>

NextMinMax == Min \/ Max

SpecMinMax == InitMinMax /\ [][NextMinMax]_vars

\* C1: min and max of an empty sequence return undefined and do not throw,
\* whatever the key specifier.
C1_EmptyIsUndefined ==
    (op \in {"min", "max"} /\ args.list = <<>>) => ret = Undef

\* The key the call extracts from an element of its list.
KeyOf(e) == IF args.f.name = "x => x" THEN e.n ELSE e.o["a"].n

\* C9: on a non-empty sequence min returns the first element whose key no
\* other key is below, max the first element whose key no other key is above.
C9_FirstExtreme ==
    (op \in {"min", "max"} /\ args.list /= <<>>) =>
        LET list == args.list
            Beats(x, y) == IF op = "min" THEN x < y ELSE x > y
            Extreme(i) == \A j \in 1..Len(list) : ~Beats(KeyOf(list[j]), KeyOf(list[i]))
        IN  \E i \in 1..Len(list) :
                /\ Extreme(i)
                /\ \A j \in 1..(i - 1) : ~Extreme(j)
                /\ ret = list[i]
                /\ Len(list) = 1 => ret = list[1]

C9_Witness ==
    /\ op = "max"
    /\ Len(args.list) = 3
    /\ args.f = FieldName("a")
    /\ KeyOf(args.list[1]) < KeyOf(args.list[2])
    /\ KeyOf(args.list[2]) = KeyOf(args.list[3])
    /\ args.list[2] /= args.list[3]
    /\ ret = args.list[2]

(***************************************************************************)
(* filter and single calls.                                                *)
(***************************************************************************)
MoldOf(fields) == [callable |-> TRUE, name |-> "Q.mold(spec)", spec |-> fields, env |-> NoEnv]

Fields(a, b) == [NoFields EXCEPT !["a"] = a, !["b"] = b]

FilterObjs ==
    {Obj(Fields(a, b)) :
        a \in {Absent, Fv(Num(0)), Fv(Num(1)), Fv(Str(1)), Fv(Null)},
        b \in {Absent, Fv(Num(1))}}

FilterSpecs ==
    {Fields(a, b) :
        a \in {Absent, Fv(Num(1)), Fv(Str(1)), Fv(Undef)},
        b \in {Absent, Fv(Num(1))}}

FilterArgs ==
    [f : {SpecArg(sp) : sp \in FilterSpecs} \cup {MoldOf(sp) : sp \in FilterSpecs}
            \cup {Fn("x => x.a == 1"), Fn("x => x.b")},
     list : SeqsUpTo(FilterObjs, MaxSeq)]

InitFilter ==
    /\ op = "none"
    /\ args \in FilterArgs
    /\ ret = Undef
    /\ trace = <<>>
    /\ heap = NoHeap

Filter ==
    /\ op = "none"
    /\ op' = "filter"
    /\ ret' = filter(args.f, args.list)
    /\ UNCHANGED <<args, trace, heap>>

Single ==
    /\ op = "none"
    /\ op' = "single"
    /\ ret' = single(args.f, args.list).ret
    /\ trace' = single(args.f, args.list).evals
    /\ UNCHANGED <<args, heap>>

NextFilter == Filter \/ Single

SpecFilter == InitFilter /\ [][NextFilter]_vars

\* C5: single returns the first element the resolved predicate holds of,
\* undefined when there is none, and calls the predicate on no element
\* behind that first match.
C5_SingleFirstMatch ==
    op = "single" =>
        LET s == args.list
            hits == {i \in 1..Len(s) : pred(args.f, s[i])}
        IN  /\ hits = {} => ret = Undef
            /\ hits /= {} =>
                  LET first == CHOOSE i \in hits : \A j \in hits : i =< j
                  IN  /\ ret = s[first]
                      /\ \A k \in 1..Len(trace) : trace[k] + 1 =< first
            /\ \A k \in 1..Len(trace) : trace[k] \in 0..(Len(s) - 1)

C5_Witness ==
    /\ op = "single"
    /\ ~args.f.callable
    /\ Len(args.list) = 2
    /\ pred(args.f, args.list[1])
    /\ pred(args.f, args.list[2])
    /\ args.list[1] /= args.list[2]
    /\ ret = args.list[1]
    /\ trace = <<0>>

\* C8: filter by a Spec keeps, in order, exactly the elements whose value
\* at every key of the Spec loosely equals the Spec's; the empty Spec keeps
\* all; the result is that of filter(mold(sp), s) and no longer than s.
C8_FilterBySpec ==
    (op = "filter" /\ ~args.f.callable) =>
        LET sp == args.f.spec
            s == args.list
            Matches(e) ==
                \A k \in Keys : sp[k] /= Absent => LooseEq(Lift(sp[k]), Lift(e.o[k]))
        IN  /\ ret = SelectSeq(s, Matches)
            /\ sp = NoFields => ret = s
            /\ ret = filter(MoldOf(sp), s)
            /\ Len(ret) =< Len(s)

C8_Witness ==
    /\ op = "filter"
    /\ args.f = SpecArg(Fields(Fv(Num(1)), Absent))
    /\ args.list = <<Obj(Fields(Fv(Num(0)), Absent)), Obj(Fields(Fv(Str(1)), Fv(Num(1))))>>
    /\ ret = <<Obj(Fields(Fv(Str(1)), Fv(Num(1))))>>

(***************************************************************************)
(* amend calls.                                                            *)
(***************************************************************************)
AmendLeft ==
    {Obj(Fields(a, b)) :
        a \in {Absent, Fv(Num(1)), Fv(Str(2))}, b \in {Absent, Fv(Num(7))}}

AmendRight ==
    {Obj([Fields(a, b) EXCEPT ![""] = e]) :
        e \in {Absent, Fv(Num(1))},
        a \in {Absent, Fv(Num(1)), Fv(Num(2))},
        b \in {Fv(Num(8)), Fv(Num(9))}}

AmendArgs ==
    [left : SeqsUpTo(AmendLeft, MaxLeft),
     right : SeqsUpTo(AmendRight, MaxRight),
     lKey : {Key("a")},
     rKey : {Omitted, Key(""), Key("a"), Key("b")}]

InitAmend ==
    /\ op = "none"
    /\ args \in AmendArgs
    /\ ret = Undef
    /\ trace = <<>>
    /\ heap = NoHeap

Amend ==
    /\ op = "none"
    /\ op' = "amend"
    /\ ret' = amend(args.left, args.right, args.lKey, args.rKey)
    /\ UNCHANGED <<args, trace, heap>>

NextAmend == Amend

SpecAmend == InitAmend /\ [][NextAmend]_vars

\* The i-th element of amend's result as the claim states it, for the right
\* key name rk.
Joined(l, right, lk, rk) ==
    LET hits == {j \in 1..Len(right) : LooseEq(Lift(right[j].o[rk]), Lift(l.o[lk]))}
        r == IF hits = {} THEN NoFields
             ELSE right[CHOOSE j \in hits : \A k \in hits : j =< k].o
    IN  Obj([k \in Keys |-> IF r[k] /= Absent THEN r[k] ELSE l.o[k]])

\* C3: amend(left, right, lKey, rKey) has left's length, and its i-th
\* element is left[i] merged with the first element of right whose rKey
\* field loosely equals left[i][lKey] (with nothing when there is none);
\* rKey is lKey when omitted.
C3_AmendLeftOuterJoin ==
    op = "amend" =>
        LET rk == IF args.rKey.given THEN args.rKey.name ELSE args.lKey.name
        IN  /\ Len(ret) = Len(args.left)
            /\ \A i \in 1..Len(ret) :
                  ret[i] = Joined(args.left[i], args.right, args.lKey.name, rk)

\* The same statement for the calls whose rKey is omitted or not empty.
C3_AmendNonEmptyKey ==
    (op = "amend" /\ args.rKey /= Key("")) => C3_AmendLeftOuterJoin

(***************************************************************************)
(* sort calls.                                                             *)
(***************************************************************************)
SortArgs ==
    [f : {Fn("x => x.a"), FieldName("a"), FieldName("-a")},
     list : SeqsUpTo(KeyedObjs, MaxLen)]

InitSort ==
    /\ op = "none"
    /\ args \in SortArgs
    /\ ret = Undef
    /\ trace = <<>>
    /\ heap = NoHeap

Sort ==
    /\ op = "none"
    /\ op' = "sort"
    /\ ret' = sort(args.f, args.list)
    /\ UNCHANGED <<args, trace, heap>>

NextSort == Sort

SpecSort == InitSort /\ [][NextSort]_vars

\* C4: sort returns a permutation of its list, in non-decreasing order of
\* the key for a callable or a field name, in non-increasing order of the
\* field for a name with the descending marker, and elements of equal key
\* keep their order.
C4_SortStable ==
    op = "sort" =>
        LET s == args.list
            n == Len(s)
            desc == args.f.name = "-a"
            K(i) == s[i].o["a"].n
            InOrder(i, j) == IF desc THEN K(i) >= K(j) ELSE K(i) =< K(j)
        IN  /\ Len(ret) = n
            /\ \E perm \in [1..n -> 1..n] :
                  /\ \A i, j \in 1..n : perm[i] = perm[j] => i = j
                  /\ \A i \in 1..n : ret[i] = s[perm[i]]
                  /\ \A i, j \in 1..n :
                        i < j => /\ InOrder(perm[i], perm[j])
                                 /\ K(perm[i]) = K(perm[j]) => perm[i] < perm[j]

C4_Witness ==
    /\ op = "sort"
    /\ args.f = FieldName("-a")
    /\ Len(args.list) = 3
    /\ args.list[1].o["a"].n < args.list[2].o["a"].n
    /\ args.list[1].o["a"].n = args.list[3].o["a"].n
    /\ args.list[1] /= args.list[3]
    /\ ret = <<args.list[2], args.list[1], args.list[3]>>

(***************************************************************************)
(* group calls.                                                            *)
(***************************************************************************)
GroupArgs ==
    [f : {Fn("x => x.a"), FieldName("a")},
     list : SeqsUpTo({Obj(Fields(a, b)) :
                        a \in {Absent, Fv(Num(1)), Fv(Str(1)), Fv(Num(2))},
                        b \in {Absent, Fv(Num(1))}}, MaxGroup)]
    \cup [f : {Fn("x => x")}, list : SeqsUpTo({Num(0), Num(1), Str(1)}, MaxGroup)]
    \cup [f : {FieldName("0")},
          list : SeqsUpTo({Arr(<<Num(i), Num(j)>>) : i, j \in 0..1}, MaxGroup)]

InitGroup ==
    /\ op = "none"
    /\ args \in GroupArgs
    /\ ret = Undef
    /\ trace = <<>>
    /\ heap = NoHeap

Group ==
    /\ op = "none"
    /\ op' = "group"
    /\ ret' = group(args.f, args.list)
    /\ UNCHANGED <<args, trace, heap>>

NextGroup == Group

SpecGroup == InitGroup /\ [][NextGroup]_vars

\* C6: group returns a mapping whose keys are the stringified keys of the
\* elements, each key holding, in order, exactly the elements of that key.
C6_GroupBuckets ==
    op = "group" =>
        LET s == args.list
            KeyName(e) == ToPropertyKey(keyFn(args.f, e))
        IN  /\ DOMAIN ret = {KeyName(s[i]) : i \in 1..Len(s)}
            /\ \A k \in DOMAIN ret :
                  LET HasKey(e) == KeyName(e) = k
                  IN  ret[k] = SelectSeq(s, HasKey)

\* The same statement for the lists none of whose elements is an array.
C6_GroupNoArrays ==
    (op = "group" /\ \A i \in 1..Len(args.list) : args.list[i].t /= "arr")
        => C6_GroupBuckets

(***************************************************************************)
(* mixin calls: left is the object at address 1, right the one at 2.       *)
(***************************************************************************)
MixinObjs ==
    {Obj(Fields(a, b)) :
        a \in {Absent, Fv(Num(1)), Fv(Num(9)), Fv(Undef)},
        b \in {Absent, Fv(Num(1)), Fv(Num(9))}}

InitMixin ==
    /\ op = "none"
    /\ heap \in [1..2 -> MixinObjs]
    /\ args = [left |-> 1, right |-> 2, before |-> heap]
    /\ ret = Undef
    /\ trace = <<>>

Mixin ==
    /\ op = "none"
    /\ op' = "mixin"
    /\ heap' = mixinOnHeap(heap, args.left, args.right).heap
    /\ ret' = mixinOnHeap(heap, args.left, args.right).ret
    /\ UNCHANGED <<args, trace>>

NextMixin == Mixin

SpecMixin == InitMixin /\ [][NextMixin]_vars

OwnKeys(obj) == {k \in Keys : obj.o[k] /= Absent}

\* C7: mixin returns a new record whose keys are those of left and of
\* right, with right's value at each key of right and left's value at each
\* key of left alone; left and right hold what they held before.
C7_MixinRightWins ==
    op = "mixin" =>
        LET left == args.before[args.left]
            right == args.before[args.right]
        IN  /\ ret \notin {args.left, args.right}
            /\ heap[ret].t = "obj"
            /\ OwnKeys(heap[ret]) = OwnKeys(left) \cup OwnKeys(right)
            /\ \A k \in OwnKeys(right) : heap[ret].o[k] = right.o[k]
            /\ \A k \in OwnKeys(left) \ OwnKeys(right) : heap[ret].o[k] = left.o[k]
            /\ heap[args.left] = left
            /\ heap[args.right] = right

C7_Witness ==
    /\ op = "mixin"
    /\ args.before[1] = Obj(Fields(Fv(Num(1)), Fv(Num(1))))
    /\ args.before[2] = Obj(Fields(Fv(Num(9)), Absent))
    /\ heap[ret] = Obj(Fields(Fv(Num(9)), Fv(Num(1))))
    /\ heap[1] = args.before[1]

(***************************************************************************)
(* Calls on the heap: list is the array at address 1, amend's right list   *)
(* the array at address 2.                                                 *)
(***************************************************************************)
HeapObjs == {Obj(Fields(Fv(Num(i)), Fv(Num(j)))) : i \in 0..1, j \in 0..1}

InitHeap ==
    /\ op = "none"
    /\ \E list \in SeqsUpTo(HeapObjs, MaxHeapLen), right \in SeqsUpTo(HeapObjs, 1) :
          heap = <<Arr(list), Arr(right)>>
    /\ args = [list |-> 1, right |-> 2, before |-> heap]
    /\ ret = Undef
    /\ trace = <<>>

Returns(call) ==
    /\ heap' = call.heap
    /\ ret' = call.ret
    /\ UNCHANGED <<args, trace>>

HeapMap ==
    /\ op = "none"
    /\ op' = "map"
    /\ \E f \in {Fn("x => x.a"), Fn("x => x")} : Returns(mapOnHeap(heap, f, args.list))

HeapFilter ==
    /\ op = "none"
    /\ op' = "filter"
    /\ \E f \in {Fn("x => x.b"), SpecArg(Fields(Fv(Num(1)), Absent))} :
          Returns(filterOnHeap(heap, f, args.list))

HeapSingle ==
    /\ op = "none"
    /\ op' = "single"
    /\ \E f \in {Fn("x => x.b"), SpecArg(Fields(Fv(Num(1)), Absent))} :
          /\ ret' = single(f, heap[args.list].a).ret
          /\ trace' = single(f, heap[args.list].a).evals
    /\ UNCHANGED <<args, heap>>

HeapReduce ==
    /\ op = "none"
    /\ op' = "reduce"
    /\ ret' = reduce(Fn("(acc, x) => acc + x.a"), Num(0), heap[args.list].a)
    /\ UNCHANGED <<args, trace, heap>>

HeapMin ==
    /\ op = "none"
    /\ op' = "min"
    /\ \E f \in {Fn("x => x.a"), FieldName("b")} : ret' = min(f, heap[args.list].a)
    /\ UNCHANGED <<args, trace, heap>>

HeapMax ==
    /\ op = "none"
    /\ op' = "max"
    /\ \E f \in {Fn("x => x.a"), FieldName("b")} : ret' = max(f, heap[args.list].a)
    /\ UNCHANGED <<args, trace, heap>>

HeapGroup ==
    /\ op = "none"
    /\ op' = "group"
    /\ \E f \in {Fn("x => x.a"), FieldName("b")} : Returns(groupOnHeap(heap, f, args.list))

HeapSort ==
    /\ op = "none"
    /\ op' = "sort"
    /\ \E f \in {Fn("x => x.a"), FieldName("a"), FieldName("-a")} :
          Returns(sortOnHeap(heap, f, args.list))

HeapPluck ==
    /\ op = "none"
    /\ op' = "pluck"
    /\ \E key \in {"a", "b"} : Returns(pluckOnHeap(heap, key, args.list))

HeapAmend ==
    /\ op = "none"
    /\ op' = "amend"
    /\ \E rKey \in {Omitted, Key("b")} :
          Returns(amendOnHeap(heap, args.list, args.right, Key("a"), rKey))

NextHeap ==
    \/ HeapMap
    \/ HeapFilter
    \/ HeapSingle
    \/ HeapReduce
    \/ HeapMin
    \/ HeapMax
    \/ HeapGroup
    \/ HeapSort
    \/ HeapPluck
    \/ HeapAmend

SpecHeap == InitHeap /\ [][NextHeap]_vars

\* C10: after a call of map, filter, single, reduce, min, max, group, sort,
\* pluck or amend every input array holds the elements it held before, and
\* an array the call returns, or a bucket of group, is a new array.
C10_InputsUntouched ==
    op /= "none" =>
        /\ heap[args.list] = args.before[args.list]
        /\ heap[args.right] = args.before[args.right]
        /\ op \in {"map", "filter", "sort", "pluck", "amend"} =>
              /\ ret \in DOMAIN heap
              /\ ret \notin DOMAIN args.before
        /\ op = "group" =>
              \A k \in DOMAIN ret :
                  /\ ret[k] \in DOMAIN heap
                  /\ ret[k] \notin DOMAIN args.before

C10_Witness ==
    /\ op = "sort"
    /\ Len(heap[args.list].a) = 2
    /\ heap[args.list].a[1].o["a"].n > heap[args.list].a[2].o["a"].n
    /\ heap[ret].a = <<heap[args.list].a[2], heap[args.list].a[1]>>

====
